---------------------------- MODULE Spec2Model ----------------------------
(***************************************************************************)
(* Admission control of the express-waitlist application: the parties      *)
(* table (models/parties.js), the dequeue service and its worker, the two  *)
(* expiry services and their workers, the session-bound API of             *)
(* party-controller.js, the BullMQ job queues and the Redis pub/sub bridge *)
(* of the event-stream service.                                            *)
(*                                                                         *)
(* Every `await` of the JavaScript source is a point where another request *)
(* or worker may run, so a handler is one action per awaited call; what a  *)
(* handler does between two awaits is part of one action.  The database    *)
(* runs each statement (or transaction) atomically.                        *)
(*                                                                         *)
(* Specifications:                                                         *)
(*   Spec        the running system: API, the three workers' job           *)
(*               processors, the clock                                     *)
(*   SpecReady   the dequeue worker's on-"ready" run next to its job       *)
(*               processor, with the API                                   *)
(*   SpecRestart the same two runs over a waiting queue, with check-in     *)
(*               and check-in expiry                                       *)
(*   SpecStream  one client's event stream next to the dequeue and         *)
(*               check-in expiry services                                  *)
(*   SpecStreamFair the same under fair delivery, for a client that stays  *)
(*               connected                                                 *)
(*   SpecDisconnect  SpecStream with a client that closes the connection   *)
(*   SpecClients the event stream of one of several waiting clients        *)
(*   SpecSeatStream  a client's event-stream, check-in and leave-queue     *)
(*               requests from admission to seat expiry                    *)
(*   SpecPurge   the dequeue and check-in-expired workers under fair job   *)
(*               delivery, clients that never check in                     *)
(*   SpecProgress the three workers under fair job delivery, clients that  *)
(*               check in or leave                                         *)
(*   SpecErrors  the dequeue worker with failing store queries, clients    *)
(*               that leave the queue                                      *)
(*   SpecPrefix  getPartiesToDequeue over every bounded store              *)
(*   SpecSeats   getAvailableSeatCount over every bounded store and time   *)
(*   SpecPositions getCurrentQueuePositions and createParty's position     *)
(*               over every bounded store                                  *)
(*   SpecIdem    two dequeue runs in a row over every bounded store        *)
(***************************************************************************)
EXTENDS Integers, FiniteSets, Sequences, Bags, TLC

(***************************************************************************)
(* Bounds of the model.                                                    *)
(***************************************************************************)
MaxParties == 2
MaxTime == 2
MaxDequeueJobs == 1

(***************************************************************************)
(* Program constants (config/waitlist.js reads them from the environment;  *)
(* the values here are a small configuration of the same program).         *)
(***************************************************************************)
MAX_SEATS == 2
SERVICE_TIME_SECONDS == 1
CHECKIN_EXPIRY_SECONDS == 1

STATUS_QUEUED == "queued"
STATUS_CHECKING_IN == "checking-in"
STATUS_SEATED == "seated"
PARTY_NOT_FOUND == "PARTY_NOT_FOUND"

\* SQL NULL / JavaScript undefined for a timestamp or a session key.
Null == -1

IDs == 1..MaxParties
Sizes == 1..MAX_SEATS
Slots == {"job", "startup"}

VARIABLES
  now,          \* the clock: the store's NOW() and the servers' Date.now()
  parties,      \* the parties table, by party_id
  session,      \* the cookie session of the client that created party i
  api,          \* the API request in flight for that client, between awaits
  run,          \* the dequeue-service runs: the worker's job and its startup run
  cexRun,       \* the checkin-expired-service run of its worker
  sexRun,       \* the seat-expired-service run of its worker
  dequeueJobs,  \* number of jobs waiting in the dequeue queue
  checkinJobs,  \* bag of the fire times of the jobs in the checkin-expired queue
  seatJobs,     \* bag of the fire times of the jobs in the seat-expired queue
  cache,        \* Redis key queued-party-positions: << >> or <<message>>
  stream        \* the event stream of one client and its Redis subscriber

vars == <<now, parties, session, api, run, cexRun, sexRun,
          dequeueJobs, checkinJobs, seatJobs, cache, stream>>

(***************************************************************************)
(* The parties table.  A row that was never inserted is "absent", a row    *)
(* that was deleted is "deleted": nanoid(10) does not hand out an id twice.*)
(***************************************************************************)
NoRow(st) ==
  [status |-> st, size |-> 0, queued_at |-> Null,
   checkin_expiration |-> Null, seat_expiration |-> Null]

\* a lookup that still finds the rows that were deleted
ExistsOrDeleted(P, i) == P[i].status # "absent"

Exists(P, i) == P[i].status \in {STATUS_QUEUED, STATUS_CHECKING_IN, STATUS_SEATED}

RECURSIVE SumSize(_, _)
SumSize(P, S) ==
  IF S = {} THEN 0
  ELSE LET i == CHOOSE x \in S : TRUE IN P[i].size + SumSize(P, S \ {i})

\* ORDER BY queued_at ASC, party_id
Precedes(P, a, b) ==
  \/ P[a].queued_at < P[b].queued_at
  \/ P[a].queued_at = P[b].queued_at /\ a < b

QueuedIDs(P) == {i \in IDs : P[i].status = STATUS_QUEUED}

\* a numbering by party_id alone
RowNumberByID(P, i) == Cardinality({j \in QueuedIDs(P) : j < i}) + 1

\* ROW_NUMBER() OVER (ORDER BY queued_at ASC, party_id) among the queued rows
RowNumber(P, i) == Cardinality({j \in QueuedIDs(P) : Precedes(P, j, i)}) + 1

\* a running total taken from the tail of the queue, not from its head
RunningTotalFromTail(P, i) ==
  SumSize(P, {j \in QueuedIDs(P) : j = i \/ Precedes(P, i, j)})

\* SUM(size) OVER (ORDER BY queued_at ASC, party_id) among the queued rows
RunningTotal(P, i) ==
  SumSize(P, {j \in QueuedIDs(P) : j = i \/ Precedes(P, j, i)})

getPartyByID(P, i) == IF Exists(P, i) THEN P[i] ELSE PARTY_NOT_FOUND

InsertParty(P, i, size, t) ==
  [P EXCEPT ![i] = [status |-> STATUS_QUEUED, size |-> size, queued_at |-> t,
                    checkin_expiration |-> Null, seat_expiration |-> Null]]

OccupyingIDs(P, t) ==
  {i \in IDs : \/ P[i].status = STATUS_SEATED /\ P[i].seat_expiration # Null
                  /\ P[i].seat_expiration > t
               \/ P[i].status = STATUS_CHECKING_IN}

\* a seat count that leaves out the checking-in rows
getAvailableSeatCountSeatedOnly(P, t) ==
  MAX_SEATS - SumSize(P, {i \in OccupyingIDs(P, t) : P[i].status = STATUS_SEATED})

\* a seat count that takes every seat for free
getAvailableSeatCountEmptyRoom(P, t) == MAX_SEATS

\* a seat count that takes every seated row in the store as occupying
getAvailableSeatCountStoredSeats(P, t) ==
  MAX_SEATS - SumSize(P, {i \in IDs : P[i].status \in {STATUS_SEATED, STATUS_CHECKING_IN}})

getAvailableSeatCount(P, t) == MAX_SEATS - SumSize(P, OccupyingIDs(P, t))

\* a snapshot that also lists the rows waiting to check in
getCurrentQueuePositionsWaiting(P) ==
  [i \in {j \in IDs : P[j].status \in {STATUS_QUEUED, STATUS_CHECKING_IN}} |->
     RowNumber(P, i)]

getCurrentQueuePositions(P) == [i \in QueuedIDs(P) |-> RowNumber(P, i)]

\* a selection by each row's own size, not by the running total
getPartiesToDequeueBySize(P, availableSeats) ==
  {i \in QueuedIDs(P) : P[i].size <= availableSeats}

getPartiesToDequeue(P, availableSeats) ==
  {i \in QueuedIDs(P) : RunningTotal(P, i) <= availableSeats}

\* UPDATE ... WHERE party_id IN (partyIDs): the rows that match
CheckingInMatches(P, partyIDs) == {i \in partyIDs : Exists(P, i)}

\* an update that also stamps queued_at
setCheckingInStatusRequeued(P, partyIDs, t) ==
  [i \in IDs |->
     IF i \in CheckingInMatches(P, partyIDs)
     THEN [P[i] EXCEPT !.status = STATUS_CHECKING_IN,
                       !.checkin_expiration = t + CHECKIN_EXPIRY_SECONDS,
                       !.queued_at = t]
     ELSE P[i]]

setCheckingInStatus(P, partyIDs, t) ==
  [i \in IDs |->
     IF i \in CheckingInMatches(P, partyIDs)
     THEN [P[i] EXCEPT !.status = STATUS_CHECKING_IN,
                       !.checkin_expiration = t + CHECKIN_EXPIRY_SECONDS]
     ELSE P[i]]

\* an expiry that also takes the rows whose window ends at this instant
ExpiredCheckinIDsAtExpiration(P, t) ==
  {i \in IDs : /\ P[i].status = STATUS_CHECKING_IN
               /\ P[i].checkin_expiration # Null
               /\ P[i].checkin_expiration <= t}

ExpiredCheckinIDs(P, t) ==
  {i \in IDs : /\ P[i].status = STATUS_CHECKING_IN
               /\ P[i].checkin_expiration # Null
               /\ P[i].checkin_expiration < t}

\* an expiry that also takes the seats whose service time ends at this instant
ExpiredSeatIDsAtExpiration(P, t) ==
  {i \in IDs : /\ P[i].status = STATUS_SEATED
               /\ P[i].seat_expiration # Null
               /\ P[i].seat_expiration <= t}

ExpiredSeatIDs(P, t) ==
  {i \in IDs : /\ P[i].status = STATUS_SEATED
               /\ P[i].seat_expiration # Null
               /\ P[i].seat_expiration < t}

DeleteRows(P, S) == [i \in IDs |-> IF i \in S THEN NoRow("deleted") ELSE P[i]]

\* a DELETE without its WHERE clause
deleteEveryParty(P, i) == DeleteRows(P, {j \in IDs : Exists(P, j)})

\* a DELETE that matches no row
deletePartyByIDKeepsRow(P, i) == P

\* DELETE ... WHERE party_id = partyID: no row changes when none matches
deletePartyByID(P, i) == DeleteRows(P, {j \in {i} : Exists(P, j)})

\* the error deletePartyByID returns with it: null when a row was deleted,
\* PARTY_NOT_FOUND when the DELETE matched no row
deletePartyByIDError(P, i) == IF Exists(P, i) THEN "null" ELSE PARTY_NOT_FOUND

\* an update without the status condition
SeatedMatchesAnyStatus(P, i) == Exists(P, i)

\* UPDATE ... WHERE party_id = partyID AND status = 'checking-in'
SeatedMatches(P, i) == P[i].status = STATUS_CHECKING_IN

updateSeatedStatus(P, i, partySize, t) ==
  [P EXCEPT ![i] = [@ EXCEPT !.status = STATUS_SEATED,
                             !.seat_expiration = t + SERVICE_TIME_SECONDS * partySize]]

(***************************************************************************)
(* Job bus.  scheduleJobAt: delay = max(runAt - Date.now(), 0), so the job *)
(* is delivered no earlier than max(runAt, now).                           *)
(***************************************************************************)
FireTime(runAt, t) == IF runAt - t > 0 THEN t + (runAt - t) ELSE t

AddJob(bag, t) == bag (+) SetToBag({t})
DueJobs(bag, t) == {x \in BagToSet(bag) : x <= t}
\* delayed jobs are delivered in the order of their scheduled times
NextDue(bag, t) == CHOOSE x \in DueJobs(bag, t) : \A y \in DueJobs(bag, t) : x <= y
TakeJob(bag, t) == bag (-) SetToBag({NextDue(bag, t)})

(***************************************************************************)
(* Sessions.                                                               *)
(***************************************************************************)
\* "undefined" for a key that is not set (status is compared with strings)
Undefined == "undefined"

NoSession ==
  [partyID |-> Null, partySize |-> Null, initialQueuePosition |-> Null,
   status |-> Undefined, seatExpiresAt |-> Null]

clearPartySession(s) ==
  [s EXCEPT !.partyID = Null, !.partySize = Null, !.status = Undefined,
            !.seatExpiresAt = Null]

cleanupExpiredSeatSession(s, t) ==
  IF s.status # STATUS_SEATED \/ s.seatExpiresAt = Null THEN s
  ELSE IF t >= s.seatExpiresAt THEN clearPartySession(s) ELSE s

(***************************************************************************)
(* Redis pub/sub and the event stream of a client (event-stream service).  *)
(* channels: the channels the Redis server has the stream's subscriber on; *)
(* cmds: the SUBSCRIBE / UNSUBSCRIBE commands the subscriber has sent and  *)
(* the server has not processed yet, in order; inbox: the messages the     *)
(* server has delivered and the "message" handler has not been run for;    *)
(* frames: the server-sent events written to the response; response: the   *)
(* HTTP status of the client's last event-stream request; last: the        *)
(* message the "message" handler ran for last (a history variable);        *)
(* disconnected: the client has closed the connection; lateWrite: a        *)
(* handler has called response.write after that (a history variable).      *)
(***************************************************************************)
CHANNEL_DEQUEUE == "dequeued-channel"
CHANNEL_CHECKING_IN_EXPIRED == "checking-in-expired-channel"
CHANNEL_QUEUE_POSITIONS == "queue-positions-channel"
Channels == {CHANNEL_DEQUEUE, CHANNEL_CHECKING_IN_EXPIRED, CHANNEL_QUEUE_POSITIONS}

CAN_DEQUEUE == "CAN_DEQUEUE"
QUEUE_POSITION_UPDATE == "QUEUE_POSITION_UPDATE"
CHECKIN_WINDOW_EXPIRED == "CHECKIN_WINDOW_EXPIRED"

NoCache == << >>

ClosedStream ==
  [pc |-> "closed", partyID |-> Null, status |-> Undefined,
   checkin_expiration |-> Null, channels |-> {}, cmds |-> << >>,
   inbox |-> << >>, frames |-> << >>, ended |-> FALSE, response |-> Null,
   last |-> << >>, disconnected |-> FALSE, lateWrite |-> FALSE]

\* PUBLISH: the server hands the message to the subscriber if it is on the channel
Publish(st, channel, message) ==
  IF channel \in st.channels
  THEN [st EXCEPT !.inbox = Append(@, [channel |-> channel, message |-> message])]
  ELSE st

\* response.write; a response that was ended takes no more frames
Write(st, frame) ==
  IF st.disconnected THEN [st EXCEPT !.lateWrite = TRUE]
  ELSE IF st.ended THEN st
  ELSE [st EXCEPT !.frames = Append(@, frame)]

sendDequeueMessage(st, checkingInExpiration) ==
  Write(st, [status |-> CAN_DEQUEUE, value |-> checkingInExpiration])

Unsubscribe(st, chans) ==
  [st EXCEPT !.cmds = Append(@, [cmd |-> "unsubscribe", channels |-> chans])]

\* a handler that does not look for the client's party in the message
dequeueChannelHandlerUnfiltered(st, message) ==
  Unsubscribe(sendDequeueMessage(st, message.checkingInExpiration),
              {CHANNEL_DEQUEUE, CHANNEL_QUEUE_POSITIONS})

dequeueChannelHandler(st, message) ==
  IF st.partyID \in message.partyIDs
  THEN Unsubscribe(sendDequeueMessage(st, message.checkingInExpiration),
                   {CHANNEL_DEQUEUE, CHANNEL_QUEUE_POSITIONS})
  ELSE st

queuePositionHandler(st, message) ==
  IF st.partyID \in DOMAIN message.queuedParties
  THEN Write(st, [status |-> QUEUE_POSITION_UPDATE,
                  value |-> message.queuedParties[st.partyID]])
  ELSE st

checkinExpiredChannelHandler(st, message) ==
  IF st.partyID \in message.partyIDs
  THEN [Unsubscribe(Write(st, [status |-> CHECKIN_WINDOW_EXPIRED, value |-> Null]),
                    {CHANNEL_CHECKING_IN_EXPIRED, CHANNEL_QUEUE_POSITIONS})
          EXCEPT !.ended = TRUE]
  ELSE st

(***************************************************************************)
(* Initial state: empty table, empty queues, workers not yet ready.        *)
(***************************************************************************)
\* A run's local variables.  queuedAtStart and flipped are history variables:
\* the rows that were queued when the run began, and the rows whose status the
\* run's own UPDATE changed from queued to checking-in.  A local is put back
\* to its initial value at the step after which the run no longer reads it.
IdleRun(pc) ==
  [pc |-> pc, availableSeats |-> 0, toDequeue |-> {},
   checkingInExpiration |-> Null, positions |-> << >>,
   queuedAtStart |-> {}, flipped |-> {}, outcome |-> "null"]

IdleExpiry == [pc |-> "idle", expiredIDs |-> {}]

\* a request in flight: size and positionInQueue belong to a create request,
\* seatExpiration to a check-in request
IdleApi ==
  [pc |-> "idle", size |-> Null, positionInQueue |-> Null, seatExpiration |-> Null]

StartPc(s) == IF s = "job" THEN "idle" ELSE "unstarted"
EndPc(s) == IF s = "job" THEN "idle" ELSE "done"

Init ==
  /\ now = 0
  /\ parties = [i \in IDs |-> NoRow("absent")]
  /\ session = [i \in IDs |-> NoSession]
  /\ api = [i \in IDs |-> IdleApi]
  /\ run = [s \in Slots |-> IdleRun(StartPc(s))]
  /\ cexRun = IdleExpiry
  /\ sexRun = IdleExpiry
  /\ dequeueJobs = 0
  /\ checkinJobs = EmptyBag
  /\ seatJobs = EmptyBag
  /\ cache = NoCache
  /\ stream = ClosedStream

Tick ==
  /\ now < MaxTime
  /\ now' = now + 1
  /\ UNCHANGED <<stream, parties, session, api, run, cexRun, sexRun,
                 dequeueJobs, checkinJobs, seatJobs, cache>>


(***************************************************************************)
(* Dequeue service (dequeueUsers / handleDequeueUpdates), one action per   *)
(* awaited call.  Slot "job" is the BullMQ processor (one job at a time),  *)
(* slot "startup" the worker's on-"ready" invocation, which is not a job   *)
(* and does not wait for the processor.                                    *)
(***************************************************************************)
DequeueStart(s) ==
  /\ run[s].pc = StartPc(s)
  /\ IF s = "job"
     THEN dequeueJobs > 0 /\ dequeueJobs' = dequeueJobs - 1
     ELSE UNCHANGED dequeueJobs
  /\ LET availableSeats == getAvailableSeatCount(parties, now) IN
       run' = [run EXCEPT ![s] =
                 [@ EXCEPT !.pc = IF availableSeats > 0
                                  THEN "getPartiesToDequeue"
                                  ELSE "getCurrentQueuePositions",
                           !.availableSeats =
                              IF availableSeats > 0 THEN availableSeats ELSE 0,
                           !.queuedAtStart =
                              IF availableSeats > 0 THEN QueuedIDs(parties) ELSE {},
                           !.outcome = "null"]]
  /\ UNCHANGED <<stream, now, parties, session, api, cexRun, sexRun,
                 checkinJobs, seatJobs, cache>>

GetPartiesToDequeue(s) ==
  /\ run[s].pc = "getPartiesToDequeue"
  /\ LET toDequeuePartyIDs == getPartiesToDequeue(parties, run[s].availableSeats) IN
       run' = [run EXCEPT ![s] =
                 [@ EXCEPT !.pc = IF toDequeuePartyIDs = {}
                                  THEN "getCurrentQueuePositions"
                                  ELSE "setCheckingInStatus",
                           !.toDequeue = toDequeuePartyIDs,
                           !.availableSeats = 0,
                           !.queuedAtStart =
                              IF toDequeuePartyIDs = {} THEN {} ELSE @]]
  /\ UNCHANGED <<stream, now, parties, session, api, cexRun, sexRun,
                 dequeueJobs, checkinJobs, seatJobs, cache>>

SetCheckingInStatus(s) ==
  /\ run[s].pc = "setCheckingInStatus"
  /\ parties' = setCheckingInStatus(parties, run[s].toDequeue, now)
  /\ LET updated == CheckingInMatches(parties, run[s].toDequeue) IN
       run' = [run EXCEPT ![s] =
                 [@ EXCEPT !.pc = IF updated = {}
                                  THEN "getCurrentQueuePositions"
                                  ELSE "scheduleJobAt",
                           !.checkingInExpiration =
                              IF updated = {} THEN Null
                              ELSE now + CHECKIN_EXPIRY_SECONDS,
                           !.toDequeue = IF updated = {} THEN {} ELSE @,
                           !.queuedAtStart = {},
                           !.flipped = {i \in updated :
                                          parties[i].status = STATUS_QUEUED}]]
  /\ UNCHANGED <<stream, now, session, api, cexRun, sexRun,
                 dequeueJobs, checkinJobs, seatJobs, cache>>

ScheduleCheckinExpired(s) ==
  /\ run[s].pc = "scheduleJobAt"
  /\ checkinJobs' = AddJob(checkinJobs, FireTime(run[s].checkingInExpiration, now))
  /\ run' = [run EXCEPT ![s].pc = "publishDequeue"]
  /\ UNCHANGED <<stream, now, parties, session, api, cexRun, sexRun,
                 dequeueJobs, seatJobs, cache>>

\* the message published on CHANNEL_DEQUEUE
DequeueMessage(s) ==
  [partyIDs |-> run[s].toDequeue,
   checkingInExpiration |-> run[s].checkingInExpiration]

PublishDequeue(s) ==
  /\ run[s].pc = "publishDequeue"
  /\ stream' = Publish(stream, CHANNEL_DEQUEUE, DequeueMessage(s))
  /\ run' = [run EXCEPT ![s] = IdleRun("getCurrentQueuePositions")]
  /\ UNCHANGED <<now, parties, session, api, cexRun, sexRun,
                 dequeueJobs, checkinJobs, seatJobs, cache>>

GetCurrentQueuePositions(s) ==
  /\ run[s].pc = "getCurrentQueuePositions"
  /\ run' = [run EXCEPT ![s] =
                [@ EXCEPT !.pc = "setCache",
                          !.positions = getCurrentQueuePositions(parties)]]
  /\ UNCHANGED <<stream, now, parties, session, api, cexRun, sexRun,
                 dequeueJobs, checkinJobs, seatJobs, cache>>

\* the message cached and published on CHANNEL_QUEUE_POSITIONS
QueuePositionsMessage(s) == [queuedParties |-> run[s].positions]

SetCache(s) ==
  /\ run[s].pc = "setCache"
  /\ cache' = <<QueuePositionsMessage(s)>>
  /\ run' = [run EXCEPT ![s].pc = "publishQueuePositions"]
  /\ UNCHANGED <<stream, now, parties, session, api, cexRun, sexRun,
                 dequeueJobs, checkinJobs, seatJobs>>

PublishQueuePositions(s) ==
  /\ run[s].pc = "publishQueuePositions"
  /\ stream' = Publish(stream, CHANNEL_QUEUE_POSITIONS, QueuePositionsMessage(s))
  /\ run' = [run EXCEPT ![s] = IdleRun(EndPc(s))]
  /\ UNCHANGED <<now, parties, session, api, cexRun, sexRun,
                 dequeueJobs, checkinJobs, seatJobs, cache>>

(***************************************************************************)
(* The dequeue service when the store fails a query.  safeQuery catches    *)
(* the rejection and returns [message, null]; the store function then      *)
(* returns its error kind with null, and dequeueUsers returns that error   *)
(* at once.  outcome is what the last run gave its caller: "null" for no   *)
(* error, an error kind, or the exception thrown.                          *)
(***************************************************************************)
COULD_NOT_GET_MAX_AVAILABLE_SEATS == "COULD_NOT_GET_MAX_AVAILABLE_SEATS"
COULD_NOT_GET_PARTIES_TO_DEQUEUE == "COULD_NOT_GET_PARTIES_TO_DEQUEUE"
PARTY_COULD_NOT_CHECK_IN == "PARTY_COULD_NOT_CHECK_IN"
COULD_NOT_CALCULATE_PARTY_QUEUE_POSITIONS == "PARTY_COULD_NOT_CALCULATE_QUEUE_POSITIONS"
TypeError == "TypeError"

\* getAvailableSeatCount destructures safeQuery's tuple as
\* [seatCountError, [{ sum }]]: with the null result of a failed query the
\* destructuring throws before seatCountError is looked at
getAvailableSeatCountFailure == TypeError

getPartiesToDequeueFailure == COULD_NOT_GET_PARTIES_TO_DEQUEUE

setCheckingInStatusFailure == PARTY_COULD_NOT_CHECK_IN

getCurrentQueuePositionsFailure == COULD_NOT_CALCULATE_PARTY_QUEUE_POSITIONS

\* the run ends there
Abort(s, outcome) ==
  run' = [run EXCEPT ![s] = [IdleRun(EndPc(s)) EXCEPT !.outcome = outcome]]

DequeueStartError(s) ==
  /\ run[s].pc = StartPc(s)
  /\ IF s = "job"
     THEN dequeueJobs > 0 /\ dequeueJobs' = dequeueJobs - 1
     ELSE UNCHANGED dequeueJobs
  /\ Abort(s, getAvailableSeatCountFailure)
  /\ UNCHANGED <<stream, now, parties, session, api, cexRun, sexRun,
                 checkinJobs, seatJobs, cache>>

GetPartiesToDequeueError(s) ==
  /\ run[s].pc = "getPartiesToDequeue"
  /\ Abort(s, getPartiesToDequeueFailure)
  /\ UNCHANGED <<stream, now, parties, session, api, cexRun, sexRun,
                 dequeueJobs, checkinJobs, seatJobs, cache>>

\* the UPDATE is one statement: failed, it has changed no row
SetCheckingInStatusError(s) ==
  /\ run[s].pc = "setCheckingInStatus"
  /\ Abort(s, setCheckingInStatusFailure)
  /\ UNCHANGED <<stream, now, parties, session, api, cexRun, sexRun,
                 dequeueJobs, checkinJobs, seatJobs, cache>>

GetCurrentQueuePositionsError(s) ==
  /\ run[s].pc = "getCurrentQueuePositions"
  /\ Abort(s, getCurrentQueuePositionsFailure)
  /\ UNCHANGED <<stream, now, parties, session, api, cexRun, sexRun,
                 dequeueJobs, checkinJobs, seatJobs, cache>>

DequeueError(s) ==
  \/ DequeueStartError(s)
  \/ GetPartiesToDequeueError(s)
  \/ SetCheckingInStatusError(s)
  \/ GetCurrentQueuePositionsError(s)

(***************************************************************************)
(* Check-in expiry service (expireCheckedinUsers), run by its worker for   *)
(* each checkin-expired job that is due.  The payload of the job is not    *)
(* read: the run purges every row whose check-in window has passed.        *)
(***************************************************************************)
CheckinExpiredStart ==
  /\ cexRun.pc = "idle"
  /\ DueJobs(checkinJobs, now) # {}
  /\ checkinJobs' = TakeJob(checkinJobs, now)
  /\ LET expiredIDs == ExpiredCheckinIDs(parties, now) IN
       /\ parties' = DeleteRows(parties, expiredIDs)
       /\ cexRun' = [pc |-> "publish", expiredIDs |-> expiredIDs]
  /\ UNCHANGED <<stream, now, session, api, run, sexRun, dequeueJobs, seatJobs, cache>>

\* the message published on CHANNEL_CHECKING_IN_EXPIRED
CheckinExpiredMessage == [partyIDs |-> cexRun.expiredIDs]

CheckinExpiredPublish ==
  /\ cexRun.pc = "publish"
  /\ stream' = Publish(stream, CHANNEL_CHECKING_IN_EXPIRED, CheckinExpiredMessage)
  /\ cexRun' = [cexRun EXCEPT !.pc = "enqueue"]
  /\ UNCHANGED <<now, parties, session, api, run, sexRun,
                 dequeueJobs, checkinJobs, seatJobs, cache>>

CheckinExpiredEnqueue ==
  /\ cexRun.pc = "enqueue"
  /\ dequeueJobs < MaxDequeueJobs
  /\ dequeueJobs' = dequeueJobs + 1
  /\ cexRun' = IdleExpiry
  /\ UNCHANGED <<stream, now, parties, session, api, run, sexRun,
                 checkinJobs, seatJobs, cache>>

(***************************************************************************)
(* Seat expiry service (expireSeats), run by its worker for each           *)
(* seat-expired job that is due.                                           *)
(***************************************************************************)
SeatExpiredStart ==
  /\ sexRun.pc = "idle"
  /\ DueJobs(seatJobs, now) # {}
  /\ seatJobs' = TakeJob(seatJobs, now)
  /\ LET removeSeats == ExpiredSeatIDs(parties, now) IN
       /\ parties' = DeleteRows(parties, removeSeats)
       /\ sexRun' = IF removeSeats # {}
                    THEN [pc |-> "enqueue", expiredIDs |-> removeSeats]
                    ELSE IdleExpiry
  /\ UNCHANGED <<stream, now, session, api, run, cexRun, dequeueJobs, checkinJobs, cache>>

SeatExpiredEnqueue ==
  /\ sexRun.pc = "enqueue"
  /\ dequeueJobs < MaxDequeueJobs
  /\ dequeueJobs' = dequeueJobs + 1
  /\ sexRun' = IdleExpiry
  /\ UNCHANGED <<stream, now, parties, session, api, run, cexRun,
                 checkinJobs, seatJobs, cache>>

(***************************************************************************)
(* Session-bound API (party-controller.js).  The cleanup middleware runs   *)
(* before the handler; the session the handler leaves is the one the       *)
(* response's cookie carries.                                              *)
(***************************************************************************)
\* the sizes a create request may carry: the valid ones, one below, one above
RequestSizes == 0..(MAX_SEATS + 1)

\* a validator that does not look at the size
IsValidRequestAnySize(size, nameOK) == nameOK

\* createPartyValidator: the name is a non-empty string of at most
\* MAX_PARY_NAME_LENGTH characters (nameOK), the size an integer in 1..MAX_SEATS
IsValidRequest(size, nameOK) == nameOK /\ size >= 1 /\ size <= MAX_SEATS

\* createParty: an invalid request is answered 400 before anything else; the
\* store inserts the row and reads its row number in one transaction
CreatePartyInsert(i, size, nameOK) ==
  /\ parties[i].status = "absent"
  /\ api[i].pc = "idle"
  /\ IF IsValidRequest(size, nameOK)
     THEN /\ parties' = InsertParty(parties, i, size, now)
          /\ api' = [api EXCEPT ![i] =
                       [IdleApi EXCEPT !.pc = "create-enqueue",
                                       !.size = size,
                                       !.positionInQueue = RowNumber(parties', i)]]
     ELSE UNCHANGED <<parties, api>>
  /\ UNCHANGED <<stream, now, session, run, cexRun, sexRun,
                 dequeueJobs, checkinJobs, seatJobs, cache>>

CreatePartyEnqueue(i) ==
  /\ api[i].pc = "create-enqueue"
  /\ dequeueJobs < MaxDequeueJobs
  /\ dequeueJobs' = dequeueJobs + 1
  /\ session' = [session EXCEPT ![i] =
                    [cleanupExpiredSeatSession(@, now) EXCEPT
                       !.partyID = i,
                       !.partySize = api[i].size,
                       !.initialQueuePosition = api[i].positionInQueue]]
  /\ api' = [api EXCEPT ![i] = IdleApi]
  /\ UNCHANGED <<stream, now, parties, run, cexRun, sexRun, checkinJobs, seatJobs, cache>>

\* checkInParty: a session without partyID or partySize is answered 401
CheckInParty(i) ==
  /\ api[i].pc = "idle"
  /\ LET s == cleanupExpiredSeatSession(session[i], now) IN
       IF s.partyID = Null \/ s.partySize = Null
       THEN /\ session' = [session EXCEPT ![i] = clearPartySession(s)]
            /\ UNCHANGED <<parties, api>>
       ELSE IF SeatedMatches(parties, s.partyID)
       THEN /\ parties' = updateSeatedStatus(parties, s.partyID, s.partySize, now)
            /\ api' = [api EXCEPT ![i] =
                         [IdleApi EXCEPT
                            !.pc = "checkin-schedule",
                            !.seatExpiration =
                               now + SERVICE_TIME_SECONDS * s.partySize]]
            /\ session' = [session EXCEPT ![i] = s]
       ELSE /\ session' = [session EXCEPT ![i] = clearPartySession(s)]
            /\ UNCHANGED <<parties, api>>
  /\ UNCHANGED <<stream, now, run, cexRun, sexRun, dequeueJobs, checkinJobs, seatJobs, cache>>

CheckInSchedule(i) ==
  /\ api[i].pc = "checkin-schedule"
  /\ seatJobs' = AddJob(seatJobs, FireTime(api[i].seatExpiration, now))
  /\ session' = [session EXCEPT ![i] =
                    [@ EXCEPT !.seatExpiresAt = api[i].seatExpiration,
                              !.status = STATUS_SEATED]]
  /\ api' = [api EXCEPT ![i] = IdleApi]
  /\ UNCHANGED <<stream, now, parties, run, cexRun, sexRun, dequeueJobs, checkinJobs, cache>>

\* deleteParty: a session without partyID or partySize is answered 401
DeleteParty(i) ==
  /\ api[i].pc = "idle"
  /\ LET s == cleanupExpiredSeatSession(session[i], now) IN
       /\ session' = [session EXCEPT ![i] = clearPartySession(s)]
       /\ IF s.partyID # Null /\ s.partySize # Null
          THEN /\ parties' = deletePartyByID(parties, s.partyID)
               /\ api' = IF deletePartyByIDError(parties, s.partyID) = "null"
                         THEN [api EXCEPT ![i].pc = "delete-enqueue"]
                         ELSE api
          ELSE UNCHANGED <<parties, api>>
  /\ UNCHANGED <<stream, now, run, cexRun, sexRun, dequeueJobs, checkinJobs, seatJobs, cache>>

DeleteEnqueue(i) ==
  /\ api[i].pc = "delete-enqueue"
  /\ dequeueJobs < MaxDequeueJobs
  /\ dequeueJobs' = dequeueJobs + 1
  /\ api' = [api EXCEPT ![i] = IdleApi]
  /\ UNCHANGED <<stream, now, parties, session, run, cexRun, sexRun,
                 checkinJobs, seatJobs, cache>>

(***************************************************************************)
(* Event stream (streamPartyEvents, setupStream).  The controller looks    *)
(* the party up; what follows the lookup runs without a wait up to the     *)
(* first awaited Redis reply: SUBSCRIBE is sent, the "message" handler is  *)
(* registered, and passInitialMessages writes CAN_DEQUEUE and sends        *)
(* UNSUBSCRIBE when the row read by the lookup was checking-in.            *)
(***************************************************************************)
StreamLookup(i) ==
  /\ stream.pc = "closed"
  /\ api[i].pc = "idle"
  /\ LET s == cleanupExpiredSeatSession(session[i], now) IN
       /\ stream' =
            IF s.status = STATUS_SEATED
            THEN [ClosedStream EXCEPT !.response = 200]   \* res.end()
            ELSE IF s.partyID = Null
            THEN [ClosedStream EXCEPT !.response = 401]
            ELSE IF ~Exists(parties, s.partyID)           \* PARTY_NOT_FOUND
            THEN [ClosedStream EXCEPT !.response = 404]
            ELSE [ClosedStream EXCEPT
                    !.pc = "setupStream",
                    !.response = 200,
                    !.partyID = s.partyID,
                    !.status = getPartyByID(parties, s.partyID).status,
                    !.checkin_expiration =
                       getPartyByID(parties, s.partyID).checkin_expiration]
       /\ session' = [session EXCEPT ![i] = s]
  /\ UNCHANGED <<now, parties, api, run, cexRun, sexRun,
                 dequeueJobs, checkinJobs, seatJobs, cache>>

SetupStream ==
  /\ stream.pc = "setupStream"
  /\ LET subscribed == [stream EXCEPT !.cmds =
                          Append(@, [cmd |-> "subscribe", channels |-> Channels])]
     IN  stream' =
           IF stream.status = STATUS_CHECKING_IN /\ stream.checkin_expiration # Null
           THEN [Unsubscribe(sendDequeueMessage(subscribed, stream.checkin_expiration),
                             {CHANNEL_DEQUEUE, CHANNEL_QUEUE_POSITIONS})
                   EXCEPT !.pc = "unsubscribe"]
           ELSE [subscribed EXCEPT !.pc = "getCache"]
  /\ UNCHANGED <<now, parties, session, api, run, cexRun, sexRun,
                 dequeueJobs, checkinJobs, seatJobs, cache>>

\* the Redis server processes the subscriber's next command; the reply to
\* the UNSUBSCRIBE that passInitialMessages awaits lets it go on
RedisCommand ==
  /\ stream.cmds # << >>
  /\ LET c == Head(stream.cmds) IN
       stream' = [stream EXCEPT
                    !.cmds = Tail(@),
                    !.channels = IF c.cmd = "subscribe" THEN @ \cup c.channels
                                 ELSE @ \ c.channels,
                    !.pc = IF c.cmd = "unsubscribe" /\ @ = "unsubscribe"
                           THEN "getCache" ELSE @]
  /\ UNCHANGED <<now, parties, session, api, run, cexRun, sexRun,
                 dequeueJobs, checkinJobs, seatJobs, cache>>

\* passInitialMessages: redis.get of the cached snapshot
StreamGetCache ==
  /\ stream.pc = "getCache"
  /\ stream' = [(IF cache # NoCache THEN queuePositionHandler(stream, cache[1])
                 ELSE stream) EXCEPT !.pc = "open"]
  /\ UNCHANGED <<now, parties, session, api, run, cexRun, sexRun,
                 dequeueJobs, checkinJobs, seatJobs, cache>>

\* redis.on("message"): the handler registered by setupMessageHandlers
StreamMessage ==
  /\ stream.pc \in {"unsubscribe", "getCache", "open"}
  /\ stream.inbox # << >>
  /\ LET m == Head(stream.inbox)
         st == [stream EXCEPT !.inbox = Tail(@), !.last = <<m>>]
     IN  stream' =
           IF m.channel = CHANNEL_DEQUEUE
           THEN dequeueChannelHandler(st, m.message)
           ELSE IF m.channel = CHANNEL_CHECKING_IN_EXPIRED
           THEN checkinExpiredChannelHandler(st, m.message)
           ELSE queuePositionHandler(st, m.message)
  /\ UNCHANGED <<now, parties, session, api, run, cexRun, sexRun,
                 dequeueJobs, checkinJobs, seatJobs, cache>>

\* the client closes the connection of its event stream; the controller's
\* "close" listener writes a log line
ClientDisconnect ==
  /\ stream.pc \in {"setupStream", "unsubscribe", "getCache", "open"}
  /\ ~stream.disconnected
  /\ stream' = [stream EXCEPT !.disconnected = TRUE]
  /\ UNCHANGED <<now, parties, session, api, run, cexRun, sexRun,
                 dequeueJobs, checkinJobs, seatJobs, cache>>

StreamStep ==
  \/ \E i \in IDs : StreamLookup(i)
  \/ SetupStream
  \/ RedisCommand
  \/ StreamGetCache
  \/ StreamMessage

(***************************************************************************)
(* The system.                                                             *)
(***************************************************************************)
DequeueStep(s) ==
  \/ DequeueStart(s)
  \/ GetPartiesToDequeue(s)
  \/ SetCheckingInStatus(s)
  \/ ScheduleCheckinExpired(s)
  \/ PublishDequeue(s)
  \/ GetCurrentQueuePositions(s)
  \/ SetCache(s)
  \/ PublishQueuePositions(s)

ExpiryStep ==
  \/ CheckinExpiredStart
  \/ CheckinExpiredPublish
  \/ CheckinExpiredEnqueue
  \/ SeatExpiredStart
  \/ SeatExpiredEnqueue

ApiStep(i) ==
  \/ \E size \in RequestSizes, nameOK \in BOOLEAN : CreatePartyInsert(i, size, nameOK)
  \/ CreatePartyEnqueue(i)
  \/ CheckInParty(i)
  \/ CheckInSchedule(i)
  \/ DeleteParty(i)
  \/ DeleteEnqueue(i)

\* The running system: the three workers process their jobs one at a time,
\* the clients call the API, time passes.
Next ==
  \/ Tick
  \/ DequeueStep("job")
  \/ ExpiryStep
  \/ \E i \in IDs : ApiStep(i)

Spec == Init /\ [][Next]_vars

\* The dequeue worker coming up: its on-"ready" run of dequeueUsers is not a
\* job, so the processor may take a job while that run is between two awaits.
NextReady ==
  \/ \E s \in Slots : DequeueStep(s)
  \/ \E i \in IDs : ApiStep(i)

SpecReady == Init /\ [][NextReady]_vars

\* The dequeue worker coming up while parties wait: the clients created their
\* parties while the worker was down, and the job of the last create is still
\* in the dequeue queue.  The clients check in; check-in windows expire.
InitRestart ==
  /\ now = 0
  /\ parties \in [IDs -> {NoRow("absent")} \cup
                          {InsertParty([j \in IDs |-> NoRow("absent")], 1, z, 0)[1] :
                             z \in Sizes}]
  /\ QueuedIDs(parties) # {}
  /\ session = [i \in IDs |->
                  IF parties[i].status = STATUS_QUEUED
                  THEN [NoSession EXCEPT !.partyID = i,
                                         !.partySize = parties[i].size,
                                         !.initialQueuePosition = RowNumber(parties, i)]
                  ELSE NoSession]
  /\ api = [i \in IDs |-> IdleApi]
  /\ run = [s \in Slots |-> IdleRun(StartPc(s))]
  /\ cexRun = IdleExpiry
  /\ sexRun = IdleExpiry
  /\ dequeueJobs = 1
  /\ checkinJobs = EmptyBag
  /\ seatJobs = EmptyBag
  /\ cache = NoCache
  /\ stream = ClosedStream

NextRestart ==
  \/ Tick
  \/ \E s \in Slots : DequeueStep(s)
  \/ CheckinExpiredStart
  \/ CheckinExpiredPublish
  \/ CheckinExpiredEnqueue
  \/ \E i \in IDs : CheckInParty(i) \/ CheckInSchedule(i)

SpecRestart == InitRestart /\ [][NextRestart]_vars

\* A client opens its event stream while the dequeue worker processes the
\* job of its create request; check-in windows expire.
InitStream ==
  /\ InitRestart
  /\ Cardinality(QueuedIDs(parties)) = 1

NextStream ==
  \/ Tick
  \/ DequeueStep("job")
  \/ CheckinExpiredStart
  \/ CheckinExpiredPublish
  \/ CheckinExpiredEnqueue
  \/ StreamStep

SpecStream == InitStream /\ [][NextStream]_vars

\* The same, with a client that may close the connection at any time.
NextDisconnect == NextStream \/ ClientDisconnect

SpecDisconnect == InitStream /\ [][NextDisconnect]_vars

\* Admitted parties whose clients never check in and never leave: the
\* dequeue and check-in-expired workers alone, over a waiting queue.  BullMQ
\* hands every job that is due to its worker and a worker's run goes on to
\* its end, so the steps of each worker are weakly fair; time passes.
NextPurge ==
  \/ Tick
  \/ DequeueStep("job")
  \/ CheckinExpiredStart
  \/ CheckinExpiredPublish
  \/ CheckinExpiredEnqueue

FairPurge ==
  /\ WF_vars(Tick)
  /\ WF_vars(DequeueStep("job"))
  /\ WF_vars(CheckinExpiredStart \/ CheckinExpiredPublish \/ CheckinExpiredEnqueue)

SpecPurge == InitRestart /\ [][NextPurge]_vars /\ FairPurge

\* The event stream of a client that stays connected: Redis processes every
\* command and delivers every message, the bridge goes on after each
\* awaited reply, the workers process every job that is due.
FairStream ==
  /\ WF_vars(Tick)
  /\ WF_vars(DequeueStep("job"))
  /\ WF_vars(CheckinExpiredStart \/ CheckinExpiredPublish \/ CheckinExpiredEnqueue)
  /\ WF_vars(SetupStream \/ RedisCommand \/ StreamGetCache \/ StreamMessage)

SpecStreamFair == InitStream /\ [][NextStream]_vars /\ FairStream

\* The dequeue worker over a waiting queue with a store that may fail any
\* query of the run; clients leave the queue.
NextErrors ==
  \/ DequeueStep("job")
  \/ DequeueError("job")
  \/ \E i \in IDs : DeleteParty(i) \/ DeleteEnqueue(i)

SpecErrors == InitRestart /\ [][NextErrors]_vars

\* The waitlist left to itself after a restart: the clients of admitted
\* parties check in or leave, nobody joins.  Every job that is due is
\* delivered and every run and every request that has started goes on to
\* its end (no store errors); when a client checks in or leaves is up to
\* the client.
NextProgress ==
  \/ Tick
  \/ DequeueStep("job")
  \/ ExpiryStep
  \/ \E i \in IDs : CheckInParty(i) \/ CheckInSchedule(i)
  \/ \E i \in IDs : DeleteParty(i) \/ DeleteEnqueue(i)

FairProgress ==
  /\ WF_vars(Tick)
  /\ WF_vars(DequeueStep("job"))
  /\ WF_vars(CheckinExpiredStart \/ CheckinExpiredPublish \/ CheckinExpiredEnqueue)
  /\ WF_vars(SeatExpiredStart \/ SeatExpiredEnqueue)
  /\ WF_vars(\E i \in IDs : CheckInSchedule(i) \/ DeleteEnqueue(i))

SpecProgress == InitRestart /\ [][NextProgress]_vars /\ FairProgress

\* The event stream of one of the clients that wait when the dequeue worker
\* comes up; other parties are admitted and expire next to it.
SpecClients == InitRestart /\ [][NextStream]_vars

\* The event stream of a client that is admitted and checks in, lets the
\* check-in window pass or leaves, and stays until the seat expires; the
\* other client has no party.
NextSeatStream ==
  \/ Tick
  \/ DequeueStep("job")
  \/ ExpiryStep
  \/ \E i \in IDs : \/ CheckInParty(i)
                     \/ CheckInSchedule(i)
                     \/ DeleteParty(i)
                     \/ DeleteEnqueue(i)
  \/ StreamStep

SpecSeatStream == InitStream /\ [][NextSeatStream]_vars

(***************************************************************************)
(* Capacity and lifecycle.                                                 *)
(***************************************************************************)
\* occupied seat count: seated rows whose seat has not expired, plus
\* checking-in rows
Occupied == SumSize(parties, OccupyingIDs(parties, now))

\* C1: in every reachable state the occupied seat count is at most MAX_SEATS,
\* that is, the available seat count is never negative.
C1_CapacityInvariant == Occupied <= MAX_SEATS

\* the status changes of section 3: queued -> checking-in,
\* checking-in -> seated, and deletion from any status
LifecycleStep(old, new) ==
  \/ old = new
  \/ old = "absent" /\ new = STATUS_QUEUED
  \/ old = STATUS_QUEUED /\ new = STATUS_CHECKING_IN
  \/ old = STATUS_CHECKING_IN /\ new = STATUS_SEATED
  \/ old \in {STATUS_QUEUED, STATUS_CHECKING_IN, STATUS_SEATED} /\ new = "deleted"

\* C2: every step changes the status of every party only along the lifecycle:
\* a row is inserted queued, goes from queued to checking-in, from
\* checking-in to seated, or is deleted; it never goes back.
C2_Lifecycle ==
  [][\A i \in IDs : LifecycleStep(parties[i].status, parties'[i].status)]_vars

(***************************************************************************)
(* The selection of getPartiesToDequeue against a reference.               *)
(***************************************************************************)
\* the queued rows as a sequence in ascending (queued_at, party_id) order
QueueOrder(P) ==
  CHOOSE q \in [1..Cardinality(QueuedIDs(P)) -> QueuedIDs(P)] :
    \A a, b \in DOMAIN q : a < b => Precedes(P, q[a], q[b])

RECURSIVE PrefixSize(_, _, _)
PrefixSize(P, q, k) == IF k = 0 THEN 0 ELSE P[q[k]].size + PrefixSize(P, q, k - 1)

\* the longest prefix of the queue whose cumulative size is <= available
LongestPrefix(P, available) ==
  LET q == QueueOrder(P)
      fits == {k \in 0..Len(q) : PrefixSize(P, q, k) <= available}
      best == CHOOSE k \in fits : \A j \in fits : j <= k
  IN  IF fits = {} THEN {} ELSE {q[j] : j \in 1..best}

\* rows a store can hold when a run reaches getPartiesToDequeue
StoreRows ==
  {NoRow("absent"), NoRow("deleted")}
  \cup {[status |-> STATUS_QUEUED, size |-> z, queued_at |-> t,
         checkin_expiration |-> Null, seat_expiration |-> Null] :
          z \in Sizes, t \in 0..MaxTime}
  \cup {[status |-> STATUS_CHECKING_IN, size |-> z, queued_at |-> 0,
         checkin_expiration |-> MaxTime, seat_expiration |-> Null] : z \in Sizes}
  \cup UNION {{[status |-> STATUS_SEATED, size |-> z, queued_at |-> 0,
                checkin_expiration |-> MaxTime, seat_expiration |-> t] :
                 t \in {MaxTime, MaxTime + SERVICE_TIME_SECONDS * z}} :
               z \in Sizes}

InitPrefix ==
  /\ now = MaxTime
  /\ parties \in [IDs -> StoreRows]
  /\ session = [i \in IDs |-> NoSession]
  /\ api = [i \in IDs |-> IdleApi]
  /\ \E available \in 1..MAX_SEATS :
       run = [s \in Slots |->
                IF s = "job"
                THEN [IdleRun("getPartiesToDequeue") EXCEPT
                        !.availableSeats = available,
                        !.queuedAtStart = QueuedIDs(parties)]
                ELSE IdleRun(StartPc(s))]
  /\ cexRun = IdleExpiry
  /\ sexRun = IdleExpiry
  /\ dequeueJobs = 0
  /\ checkinJobs = EmptyBag
  /\ seatJobs = EmptyBag
  /\ cache = NoCache
  /\ stream = ClosedStream

NextPrefix == GetPartiesToDequeue("job")

SpecPrefix == InitPrefix /\ [][NextPrefix]_vars

\* C3: the rows a run selects are exactly the longest prefix of the queue, in
\* ascending (queued_at, party_id) order, whose cumulative size is at most the
\* available seat count; when the first queued party is larger than that, no
\* row is selected, whatever follows it.
C3_LongestPrefix ==
  [][\A s \in Slots : GetPartiesToDequeue(s) =>
       /\ run'[s].toDequeue = LongestPrefix(parties, run[s].availableSeats)
       /\ (/\ QueuedIDs(parties) # {}
           /\ parties[QueueOrder(parties)[1]].size > run[s].availableSeats)
          => run'[s].toDequeue = {}]_vars

\* a run has selected a proper prefix: the next queued party does not fit
C3_Witness ==
  /\ run["job"].pc = "setCheckingInStatus"
  /\ run["job"].toDequeue # {}
  /\ QueuedIDs(parties) \ run["job"].toDequeue # {}

C5_MessageIsFlipped ==
  [][\A s \in Slots : PublishDequeue(s) =>
       /\ run[s].flipped # {}
       /\ DequeueMessage(s).partyIDs = run[s].flipped]_vars

(***************************************************************************)
(* Check-in against check-in expiry.                                       *)
(***************************************************************************)
\* the parties the check-in expiry run in progress has purged
PurgedByCheckinExpiry == cexRun.expiredIDs

\* the client of party i was answered "Successfully checked in"
ReportedSeated(i) == session[i].partyID = i /\ session[i].status = STATUS_SEATED

\* C6: a check-in and a check-in expiry run have one winner: no party is both
\* reported seated to its client and purged by check-in expiry.
C6_OneWinner == \A i \in PurgedByCheckinExpiry : ~ReportedSeated(i)

(***************************************************************************)
(* Seat-expired jobs.                                                      *)
(***************************************************************************)
\* C8: every seated row has a scheduled seat-expired job whose fire time is
\* at or after the row's seat_expiration (stated here for the rows whose
\* check-in request has been answered, so after scheduleJobAt has returned).
C8_SeatedHasJob ==
  \A i \in IDs :
     (parties[i].status = STATUS_SEATED /\ api[i].pc # "checkin-schedule")
     => \E t \in BagToSet(seatJobs) : t >= parties[i].seat_expiration

(***************************************************************************)
(* Runs that have nothing to do.                                           *)
(***************************************************************************)
\* Two jobs in the dequeue queue and nothing else going on: the worker runs
\* the dequeue service twice in a row on a store that nothing else touches.
InitIdem ==
  /\ now = MaxTime
  /\ parties \in [IDs -> StoreRows]
  /\ session = [i \in IDs |-> NoSession]
  /\ api = [i \in IDs |-> IdleApi]
  /\ run = [s \in Slots |-> IdleRun(StartPc(s))]
  /\ cexRun = IdleExpiry
  /\ sexRun = IdleExpiry
  /\ dequeueJobs = 2
  /\ checkinJobs = EmptyBag
  /\ seatJobs = EmptyBag
  /\ cache = NoCache
  /\ stream = ClosedStream

NextIdem == DequeueStep("job")

SpecIdem == InitIdem /\ [][NextIdem]_vars

\* the run of the second of the two jobs is in progress
SecondRun == dequeueJobs = 0 /\ run["job"].pc # "idle"

\* C9: when the dequeue service runs twice in a row with nothing in between,
\* the second run changes no row, schedules no check-in-expired job, publishes
\* no dequeue message, and its queue-positions message is the one the first
\* run cached and published.
C9_Idempotent ==
  [][SecondRun =>
       /\ parties' = parties
       /\ checkinJobs' = checkinJobs
       /\ ~PublishDequeue("job")
       /\ SetCache("job") => cache' = cache]_vars

\* both runs are over, the first one admitted a party and left one queued
C9_Witness ==
  /\ dequeueJobs = 0
  /\ run["job"].pc = "idle"
  /\ QueuedIDs(parties) # {}
  /\ \E i \in IDs : /\ parties[i].status = STATUS_CHECKING_IN
                     /\ parties[i].checkin_expiration = now + CHECKIN_EXPIRY_SECONDS

\* C10: a check-in expiry run that finds no expired row leaves the store
\* unchanged, publishes nothing on the check-in-expired channel and adds no
\* dequeue job.
C10_ExpiryNoOp ==
  [][/\ (CheckinExpiredStart /\ ExpiredCheckinIDs(parties, now) = {})
        => parties' = parties
     /\ (CheckinExpiredPublish \/ CheckinExpiredEnqueue)
        => CheckinExpiredMessage.partyIDs # {}]_vars

(***************************************************************************)
(* Admission notification.                                                 *)
(***************************************************************************)
CanDequeueFrames ==
  {k \in DOMAIN stream.frames : stream.frames[k].status = CAN_DEQUEUE}

\* C7: at most one CAN_DEQUEUE frame is ever written on an event stream.
C7_AtMostOneCanDequeue == Cardinality(CanDequeueFrames) <= 1


(***************************************************************************)
(* The expiry services.                                                    *)
(***************************************************************************)
\* the rows a step removed from the table
Removed == {i \in IDs : Exists(parties, i) /\ ~Exists(parties', i)}

C13_QueuePositionsSnapshot ==
  [][\A s \in Slots :
       /\ GetCurrentQueuePositions(s) =>
            /\ DOMAIN run'[s].positions =
                 {i \in IDs : parties[i].status = STATUS_QUEUED}
            /\ \A i \in DOMAIN run'[s].positions :
                 /\ parties[i].status # STATUS_CHECKING_IN
                 /\ run'[s].positions[i] =
                      1 + Cardinality({j \in DOMAIN run'[s].positions :
                                         Precedes(parties, j, i)})
       /\ SetCache(s) =>
            /\ cache' = <<[queuedParties |-> run[s].positions]>>
            /\ run'[s].positions = run[s].positions
            /\ stream' = stream
       /\ PublishQueuePositions(s) =>
            /\ cache = <<[queuedParties |-> run[s].positions]>>
            /\ CHANNEL_QUEUE_POSITIONS \in stream.channels =>
                 stream' = [stream EXCEPT !.inbox =
                              Append(@, [channel |-> CHANNEL_QUEUE_POSITIONS,
                                         message |-> cache[1]])]
       /\ (run[s].pc # EndPc(s) /\ run'[s].pc = EndPc(s)) =>
            PublishQueuePositions(s)
       /\ (run[s].pc = "getCurrentQueuePositions" /\ run'[s] # run[s]) =>
            GetCurrentQueuePositions(s)
       /\ (run[s].pc = "setCache" /\ run'[s] # run[s]) => SetCache(s)
       /\ (run'[s] # run[s] /\ run[s].pc \in {"getCurrentQueuePositions",
                                               "setCache",
                                               "publishQueuePositions"}) =>
            parties' = parties]_vars

\* a run that admitted one party and left another queued has delivered its
\* snapshot, the cached one, to a subscribed stream
C13_Witness ==
  /\ run["job"].pc = "idle"
  /\ cache # NoCache
  /\ DOMAIN cache[1].queuedParties # {}
  /\ \E i \in IDs : parties[i].status = STATUS_CHECKING_IN
  /\ \E k \in DOMAIN stream.inbox :
       stream.inbox[k] = [channel |-> CHANNEL_QUEUE_POSITIONS, message |-> cache[1]]

(***************************************************************************)
(* A dequeue run that finds no seat.                                       *)
(***************************************************************************)
\* C14: a dequeue run that starts when the seats are fully taken by
\* unexpired seated and checking-in parties goes straight to the queue
\* positions; from there to its end a run changes no row, schedules no
\* check-in-expired job and delivers nothing on the dequeue channel.
C14_NoCapacity ==
  [][\A s \in Slots :
       /\ (DequeueStart(s) /\ Occupied >= MAX_SEATS) =>
            /\ run'[s].pc = "getCurrentQueuePositions"
            /\ parties' = parties
            /\ checkinJobs' = checkinJobs
            /\ stream' = stream
       /\ (run'[s] # run[s] /\ run[s].pc \in {"getCurrentQueuePositions",
                                               "setCache",
                                               "publishQueuePositions"}) =>
            /\ run'[s].pc \in {"setCache", "publishQueuePositions", EndPc(s)}
            /\ parties' = parties
            /\ checkinJobs' = checkinJobs
            /\ \A k \in DOMAIN stream'.inbox :
                 k > Len(stream.inbox) =>
                   stream'.inbox[k].channel # CHANNEL_DEQUEUE]_vars

\* a run that started with every seat taken, a party waiting in the queue
\* and a stream subscribed to the dequeue channel: no check-in-expired job
\* and no dequeue job is left, so the run in progress has admitted nobody
C14_Witness ==
  /\ run["job"].pc = "getCurrentQueuePositions"
  /\ Occupied >= MAX_SEATS
  /\ QueuedIDs(parties) # {}
  /\ checkinJobs = EmptyBag
  /\ cexRun.pc = "idle"
  /\ dequeueJobs = 0
  /\ CHANNEL_DEQUEUE \in stream.channels

(***************************************************************************)
(* The session-bound API.                                                  *)
(***************************************************************************)
\* C15: a check-in request of a session that holds its party keys sets the
\* party's row to seated with seat_expiration = now + SERVICE_TIME_SECONDS *
\* size when the row is checking-in, then adds exactly one seat-expired job
\* for that expiration (firing at once when the expiration has passed by
\* then) and stores status seated and seatExpiresAt in the session; when the
\* row is missing or has another status the request changes no row and adds
\* no job.  No other step adds a seat-expired job.
C15_CheckInEffect ==
  [][/\ \A i \in IDs :
          /\ CheckInParty(i) =>
               LET p == cleanupExpiredSeatSession(session[i], now).partyID IN
                 IF p # Null /\ parties[p].status = STATUS_CHECKING_IN
                 THEN /\ parties' =
                           [parties EXCEPT
                              ![p].status = STATUS_SEATED,
                              ![p].seat_expiration =
                                 now + SERVICE_TIME_SECONDS * parties[p].size]
                      /\ api'[i].pc = "checkin-schedule"
                      /\ api'[i].seatExpiration = parties'[p].seat_expiration
                      /\ seatJobs' = seatJobs
                 ELSE /\ parties' = parties
                      /\ seatJobs' = seatJobs
                      /\ api'[i] = IdleApi
          /\ CheckInSchedule(i) =>
               /\ seatJobs' = seatJobs (+) SetToBag({IF api[i].seatExpiration > now
                                                     THEN api[i].seatExpiration
                                                     ELSE now})
               /\ session'[i].status = STATUS_SEATED
               /\ session'[i].seatExpiresAt = api[i].seatExpiration
               /\ parties' = parties
               /\ api'[i] = IdleApi
     /\ (\E t \in 0..(MaxTime + SERVICE_TIME_SECONDS * MAX_SEATS) :
            CopiesIn(t, seatJobs') > CopiesIn(t, seatJobs)) =>
          \E i \in IDs : CheckInSchedule(i)]_vars

\* a client that checked in: the row is seated, the session says so and the
\* seat-expired job waits for the expiration
C15_Witness ==
  \E i \in IDs :
    /\ api[i].pc = "idle"
    /\ parties[i].status = STATUS_SEATED
    /\ session[i].status = STATUS_SEATED
    /\ session[i].seatExpiresAt = parties[i].seat_expiration
    /\ parties[i].seat_expiration = now + SERVICE_TIME_SECONDS * parties[i].size
    /\ CopiesIn(parties[i].seat_expiration, seatJobs) = 1

C17_CreateEffect ==
  [][\A i \in IDs :
       /\ (~Exists(parties, i) /\ Exists(parties', i)) =>
            /\ \A j \in IDs \ {i} : parties'[j] = parties[j]
            /\ parties'[i].status = STATUS_QUEUED
            /\ parties'[i].size \in 1..MAX_SEATS
            /\ parties'[i].queued_at = now
            /\ parties'[i].checkin_expiration = Null
            /\ parties'[i].seat_expiration = Null
            /\ api[i].pc = "idle"
            /\ api'[i].pc = "create-enqueue"
            /\ api'[i].size = parties'[i].size
            /\ api'[i].positionInQueue =
                 1 + Cardinality({j \in IDs : /\ parties'[j].status = STATUS_QUEUED
                                              /\ Precedes(parties', j, i)})
            /\ session' = session
            /\ dequeueJobs' = dequeueJobs
       /\ CreatePartyEnqueue(i) =>
            /\ session'[i].partyID = i
            /\ session'[i].partySize = api[i].size
            /\ session'[i].initialQueuePosition = api[i].positionInQueue
            /\ dequeueJobs' = dequeueJobs + 1
            /\ parties' = parties
            /\ api'[i] = IdleApi
       /\ (api[i].pc = "create-enqueue" /\ api'[i] # api[i]) => CreatePartyEnqueue(i)
       /\ \A size \in RequestSizes, nameOK \in BOOLEAN :
            (CreatePartyInsert(i, size, nameOK)
               /\ ~(nameOK /\ size \in 1..MAX_SEATS)) =>
              /\ parties' = parties
              /\ session' = session
              /\ dequeueJobs' = dequeueJobs
              /\ api' = api]_vars

\* a client that joined behind another party: its session carries its id,
\* its size and position 2, and the dequeue job of its request waits
C17_Witness ==
  \E i \in IDs :
    /\ api[i].pc = "idle"
    /\ parties[i].status = STATUS_QUEUED
    /\ session[i].partyID = i
    /\ session[i].partySize = parties[i].size
    /\ session[i].initialQueuePosition = 2
    /\ dequeueJobs = 1

\* C18: a check-in, leave-queue or event-stream request whose session has no
\* partyID when the handler runs changes no row, adds no job to any queue
\* and opens no stream; an event-stream request whose party is no longer in
\* the table opens no stream either.
C18_SessionGuard ==
  [][\A i \in IDs :
       LET s == cleanupExpiredSeatSession(session[i], now) IN
         /\ (s.partyID = Null /\ (CheckInParty(i) \/ DeleteParty(i) \/ StreamLookup(i))) =>
              /\ parties' = parties
              /\ dequeueJobs' = dequeueJobs
              /\ checkinJobs' = checkinJobs
              /\ seatJobs' = seatJobs
              /\ api' = api
              /\ stream' = IF StreamLookup(i)
                           THEN [ClosedStream EXCEPT !.response = 401]
                           ELSE stream
              /\ session'[i].partyID = Null
         /\ (/\ s.partyID # Null
             /\ s.status # STATUS_SEATED
             /\ parties[i].status \notin {STATUS_QUEUED, STATUS_CHECKING_IN,
                                          STATUS_SEATED}
             /\ StreamLookup(i)) =>
              /\ stream' = [ClosedStream EXCEPT !.response = 404]
              /\ parties' = parties
              /\ dequeueJobs' = dequeueJobs]_vars

\* the check-in window of a party passed and its row was purged while the
\* client's session still carried the partyID: its event-stream request was
\* answered 404 and no stream is open
C18_Witness ==
  \E i \in IDs :
    /\ session[i].partyID = i
    /\ parties[i].status = "deleted"
    /\ stream.pc = "closed"
    /\ stream.response = 404

\* the party keys of a session are cleared
Cleared(s) ==
  /\ s.partyID = Null
  /\ s.partySize = Null
  /\ s.status = Undefined
  /\ s.seatExpiresAt = Null

\* C19: a check-in, leave-queue or event-stream request that gets
\* PARTY_NOT_FOUND from the store (check-in: no checking-in row under the
\* session's partyID; leave queue and event stream: no row under it) ends
\* with the party keys of its session cleared.
C19_NotFoundClearsSession ==
  [][\A i \in IDs :
       LET s == cleanupExpiredSeatSession(session[i], now)
           missing == parties[i].status \notin {STATUS_QUEUED, STATUS_CHECKING_IN,
                                                STATUS_SEATED}
       IN  /\ (/\ s.partyID # Null
               /\ parties[i].status # STATUS_CHECKING_IN
               /\ CheckInParty(i)) => Cleared(session'[i])
           /\ (s.partyID # Null /\ missing /\ DeleteParty(i)) =>
                Cleared(session'[i])
           /\ (/\ s.partyID # Null
               /\ s.status # STATUS_SEATED
               /\ missing
               /\ StreamLookup(i)) => Cleared(session'[i])]_vars

(***************************************************************************)
(* Per-client filtering of the event stream.                               *)
(***************************************************************************)
\* the party of the stream is named in a pub/sub message
Mentions(p, m) ==
  IF m.channel = CHANNEL_QUEUE_POSITIONS
  THEN p \in DOMAIN m.message.queuedParties
  ELSE p \in m.message.partyIDs

\* the frames a step wrote on the stream
NewFrames ==
  {stream'.frames[k] : k \in (Len(stream.frames) + 1)..Len(stream'.frames)}

C21_TerminalEvent ==
  (stream.ended /\ stream.cmds = << >>) =>
     /\ stream.channels = {}
     /\ stream.frames # << >>
     /\ stream.frames[Len(stream.frames)].status = CHECKIN_WINDOW_EXPIRED

\* C22: once the client has closed the connection of its event stream and
\* Redis has processed every command the subscriber sent, the subscriber is
\* on no channel; and no handler calls response.write after the close.
C22_Cancellation ==
  stream.disconnected =>
     /\ stream.cmds = << >> => stream.channels = {}
     /\ ~stream.lateWrite

(***************************************************************************)
(* Progress.                                                               *)
(***************************************************************************)
\* C23: under fair job delivery, a party that is set to checking-in and
\* whose client never checks in and never leaves is eventually deleted.
\* (Parties whose checkin_expiration is the last instant of the clock are
\* left out: no later instant exists at which they could be found expired.)
C23_PurgeUnconfirmed ==
  \A i \in IDs :
    (parties[i].status = STATUS_CHECKING_IN /\ parties[i].checkin_expiration < MaxTime)
      ~> (parties[i].status = "deleted")

\* the party is first in the queue and the seats not taken are enough for it
AvailableFor(i) ==
  /\ parties[i].status = STATUS_QUEUED
  /\ RowNumber(parties, i) = 1
  /\ parties[i].size <= getAvailableSeatCount(parties, now)

\* C24: under fair job delivery no queued party waits for ever while enough
\* seats stay available for it: a party that is first in the queue and fits
\* the available seats is eventually set to checking-in (or leaves), or the
\* seats are eventually taken again.
C24_QueueProgress ==
  \A i \in IDs : AvailableFor(i) ~> ~AvailableFor(i)

\* C25: every pass of the cycle that schedules something new has removed or
\* advanced a row: a dequeue run adds a check-in-expired job only after it
\* set a queued row to checking-in, and an expiry run adds a dequeue job
\* only after it deleted a row.
C25_PassAdvancesOrSchedulesNothing ==
  [][/\ \A s \in Slots : ScheduleCheckinExpired(s) => run[s].flipped # {}
     /\ CheckinExpiredEnqueue => cexRun.expiredIDs # {}
     /\ SeatExpiredEnqueue => sexRun.expiredIDs # {}]_vars

\* a run of dequeueUsers is between its first and its last awaited call
InProgress(s) == run[s].pc \notin {StartPc(s), EndPc(s)}

\* C26: no two runs of the dequeue service are in progress at the same
\* time, the run started when the worker came up counted with the runs
\* started by jobs.
C26_SerializedAdmission ==
  \A s, t \in Slots : (InProgress(s) /\ InProgress(t)) => s = t

(***************************************************************************)
(* getAvailableSeatCount over every bounded store and every time of the    *)
(* clock: rows whose expirations lie before, at and after the time of the  *)
(* read.                                                                   *)
(***************************************************************************)
SeatRows ==
  {NoRow("absent"), NoRow("deleted")}
  \cup {[status |-> STATUS_QUEUED, size |-> z, queued_at |-> 0,
         checkin_expiration |-> Null, seat_expiration |-> Null] : z \in Sizes}
  \cup {[status |-> STATUS_CHECKING_IN, size |-> z, queued_at |-> 0,
         checkin_expiration |-> e, seat_expiration |-> Null] :
          z \in Sizes, e \in CHECKIN_EXPIRY_SECONDS..MaxTime}
  \cup {[status |-> STATUS_SEATED, size |-> z, queued_at |-> 0,
         checkin_expiration |-> CHECKIN_EXPIRY_SECONDS, seat_expiration |-> e] :
          z \in Sizes, e \in 1..(MaxTime + 1)}

InitSeats ==
  /\ now \in 0..MaxTime
  /\ parties \in [IDs -> SeatRows]
  /\ session = [i \in IDs |-> NoSession]
  /\ api = [i \in IDs |-> IdleApi]
  /\ run = [s \in Slots |-> IdleRun(StartPc(s))]
  /\ cexRun = IdleExpiry
  /\ sexRun = IdleExpiry
  /\ dequeueJobs = 1
  /\ checkinJobs = EmptyBag
  /\ seatJobs = EmptyBag
  /\ cache = NoCache
  /\ stream = ClosedStream

NextSeats == DequeueStart("job")

SpecSeats == InitSeats /\ [][NextSeats]_vars

\* the seats of row i that count as taken at the time of the read
Counted(i) ==
  IF parties[i].status = STATUS_SEATED /\ parties[i].seat_expiration > now
  THEN parties[i].size
  ELSE IF parties[i].status = STATUS_CHECKING_IN THEN parties[i].size
  ELSE 0

CountedUpTo[n \in 0..MaxParties] ==
  IF n = 0 THEN 0 ELSE CountedUpTo[n - 1] + Counted(n)

\* C27: the seat count a dequeue run reads is MAX_SEATS minus the sizes of
\* the rows that are seated with seat_expiration > now or checking-in
\* (MAX_SEATS when there is none): a seated row whose seat has expired is
\* not counted though it is still stored, a checking-in row is counted
\* whatever its checkin_expiration, a queued row is never counted.
C27_AvailableSeats ==
  [][DequeueStart("job") =>
       LET availableSeats == MAX_SEATS - CountedUpTo[MaxParties] IN
         /\ getAvailableSeatCount(parties, now) = availableSeats
         /\ availableSeats > 0 =>
              /\ run'["job"].pc = "getPartiesToDequeue"
              /\ run'["job"].availableSeats = availableSeats
         /\ availableSeats <= 0 => run'["job"].pc = "getCurrentQueuePositions"
         /\ (\A i \in IDs : Counted(i) = 0) => availableSeats = MAX_SEATS]_vars

\* a run has read the seat count of a store that holds a seated row whose
\* seat has expired and a checking-in row whose window has passed: only the
\* second is counted
C27_Witness ==
  /\ run["job"].pc = "getPartiesToDequeue"
  /\ \E i, j \in IDs :
       /\ parties[i].status = STATUS_SEATED
       /\ parties[i].seat_expiration <= now
       /\ parties[j].status = STATUS_CHECKING_IN
       /\ parties[j].checkin_expiration < now
       /\ \A k \in IDs \ {i, j} : parties[k].status \notin {STATUS_SEATED, STATUS_CHECKING_IN}
       /\ run["job"].availableSeats = MAX_SEATS - parties[j].size

\* C28: deletePartyByID on an existing party returns no error and deletes
\* exactly that row; on an identifier with no row it returns PARTY_NOT_FOUND
\* and changes no row; applied again to the store it has left, it returns
\* PARTY_NOT_FOUND and leaves that store as it is.
C28_DeleteIdempotent ==
  [][\A i \in IDs : DeleteParty(i) =>
       LET s == cleanupExpiredSeatSession(session[i], now)
           p == s.partyID
       IN  (p # Null /\ s.partySize # Null) =>
             /\ IF Exists(parties, p)
                THEN /\ deletePartyByIDError(parties, p) = "null"
                     /\ parties' = [parties EXCEPT ![p] = NoRow("deleted")]
                     /\ api'[i].pc = "delete-enqueue"
                ELSE /\ deletePartyByIDError(parties, p) = PARTY_NOT_FOUND
                     /\ parties' = parties
                     /\ api'[i].pc = "idle"
             /\ deletePartyByIDError(parties', p) = PARTY_NOT_FOUND
             /\ deletePartyByID(parties', p) = parties']_vars

\* a leave-queue request has deleted its party's row; a second delete of
\* the same identifier finds no row and leaves the store as it is
C28_Witness ==
  \E i \in IDs :
    /\ api[i].pc = "delete-enqueue"
    /\ ~Exists(parties, i)
    /\ deletePartyByIDError(parties, i) = PARTY_NOT_FOUND
    /\ deletePartyByID(parties, i) = parties

\* C29: a check-in request sets a party to seated only while the party's
\* check-in window is open, that is, at a time not later than its
\* checkin_expiration.
C29_SeatedWithinWindow ==
  [][\A i \in IDs : CheckInParty(i) =>
       \A p \in IDs :
         (parties[p].status # STATUS_SEATED /\ parties'[p].status = STATUS_SEATED)
           => now <= parties[p].checkin_expiration]_vars

\* the seat the session records has expired
SeatSessionExpired(s, t) ==
  s.status = STATUS_SEATED /\ s.seatExpiresAt # Null /\ s.seatExpiresAt <= t

\* C30: a request of a session with status seated and seatExpiresAt <= now
\* reaches its handler with partyID, partySize, status, initialQueuePosition
\* and seatExpiresAt all removed from the session (the check-in and
\* leave-queue handlers then answer 401 and leave it so); a request of any
\* other session reaches its handler with the session unchanged.
C30_SessionPreStep ==
  [][\A i \in IDs : (CheckInParty(i) \/ DeleteParty(i)) =>
       IF SeatSessionExpired(session[i], now)
       THEN /\ cleanupExpiredSeatSession(session[i], now) = NoSession
            /\ session'[i] = NoSession
       ELSE cleanupExpiredSeatSession(session[i], now) = session[i]]_vars

(***************************************************************************)
(* Order of the steps of a dequeue run; store failures.                    *)
(***************************************************************************)
\* C31: a run publishes the dequeue message only after its update has set
\* every party the message names to checking-in and after it has scheduled
\* the check-in-expired job; it publishes its queue-positions message after
\* its dequeue message; a run whose getPartiesToDequeue or
\* setCheckingInStatus fails ends there: it writes no row, schedules no job
\* and publishes nothing.
C31_PublishOrdering ==
  [][\A s \in Slots :
       /\ PublishDequeue(s) => DequeueMessage(s).partyIDs \subseteq run[s].flipped
       /\ (run'[s].pc = "publishDequeue" /\ run[s].pc # "publishDequeue")
            => /\ ScheduleCheckinExpired(s)
               /\ BagCardinality(checkinJobs') = BagCardinality(checkinJobs) + 1
       /\ (run'[s].pc = "scheduleJobAt" /\ run[s].pc # "scheduleJobAt")
            => /\ SetCheckingInStatus(s)
               /\ \A i \in run'[s].flipped : parties'[i].status = STATUS_CHECKING_IN
       /\ (run'[s].pc = "getCurrentQueuePositions" /\ run[s].pc # "getCurrentQueuePositions")
            => \/ PublishDequeue(s)
               \/ run[s].pc \notin {"scheduleJobAt", "publishDequeue"}
                  /\ run'[s].toDequeue = {}
       /\ PublishQueuePositions(s) => run[s].pc = "publishQueuePositions"
       /\ (GetPartiesToDequeueError(s) \/ SetCheckingInStatusError(s))
            => /\ parties' = parties
               /\ checkinJobs' = checkinJobs
               /\ stream' = stream
               /\ run[s].pc \in {"getPartiesToDequeue", "setCheckingInStatus"}
               /\ run'[s].pc = EndPc(s)]_vars

\* the error kinds the store functions of the dequeue service return
ErrorKinds ==
  {COULD_NOT_GET_MAX_AVAILABLE_SEATS, COULD_NOT_GET_PARTIES_TO_DEQUEUE,
   PARTY_COULD_NOT_CHECK_IN, COULD_NOT_CALCULATE_PARTY_QUEUE_POSITIONS}

\* C32: when the store fails a query of a dequeue run, the store function
\* returns its error kind and does not throw, and the run ends there with
\* that error kind: the step writes no row, schedules no job and publishes
\* nothing.
C32_ErrorAsValue ==
  [][\A s \in Slots : DequeueError(s) =>
       /\ run'[s].outcome \in ErrorKinds
       /\ run'[s].pc = EndPc(s)
       /\ parties' = parties
       /\ checkinJobs' = checkinJobs
       /\ stream' = stream
       /\ cache' = cache]_vars

(***************************************************************************)
(* Rows.                                                                   *)
(***************************************************************************)
\* C33: in every reachable state, a row has checkin_expiration only while
\* its status is checking-in and seat_expiration only while its status is
\* seated; every checking-in row has a checkin_expiration later than its
\* queued_at, and every seated row has a seat_expiration.
C33_ExpirationFields ==
  \A i \in IDs : Exists(parties, i) =>
    /\ parties[i].checkin_expiration # Null => parties[i].status = STATUS_CHECKING_IN
    /\ parties[i].seat_expiration # Null => parties[i].status = STATUS_SEATED
    /\ parties[i].status = STATUS_CHECKING_IN =>
         /\ parties[i].checkin_expiration # Null
         /\ parties[i].checkin_expiration > parties[i].queued_at
    /\ parties[i].status = STATUS_SEATED => parties[i].seat_expiration # Null

(***************************************************************************)
(* getCurrentQueuePositions and the position createParty reads, over every *)
(* bounded store.                                                          *)
(***************************************************************************)
InitPositions ==
  /\ now = MaxTime
  /\ parties \in [IDs -> StoreRows]
  /\ session = [i \in IDs |-> NoSession]
  /\ api = [i \in IDs |-> IdleApi]
  /\ run = [s \in Slots |->
              IF s = "job" THEN IdleRun("getCurrentQueuePositions")
              ELSE IdleRun(StartPc(s))]
  /\ cexRun = IdleExpiry
  /\ sexRun = IdleExpiry
  /\ dequeueJobs = 0
  /\ checkinJobs = EmptyBag
  /\ seatJobs = EmptyBag
  /\ cache = NoCache
  /\ stream = ClosedStream

NextPositions ==
  \/ GetCurrentQueuePositions("job")
  \/ \E i \in IDs, size \in RequestSizes, nameOK \in BOOLEAN :
       CreatePartyInsert(i, size, nameOK)

SpecPositions == InitPositions /\ [][NextPositions]_vars

\* C34: the snapshot getCurrentQueuePositions returns lists exactly the
\* queued rows, numbers them 1..n with no number twice, in ascending
\* (queued_at, party_id) order; the position createParty returns is the
\* number the snapshot of the store after the insert gives the new party.
C34_PositionsTotalOrder ==
  [][/\ \A s \in Slots : GetCurrentQueuePositions(s) =>
          LET row == run'[s].positions IN
            /\ DOMAIN row = {i \in IDs : parties[i].status = STATUS_QUEUED}
            /\ {row[i] : i \in DOMAIN row} = 1..Cardinality(DOMAIN row)
            /\ \A i, j \in DOMAIN row :
                 row[i] < row[j] <=>
                   \/ parties[i].queued_at < parties[j].queued_at
                   \/ parties[i].queued_at = parties[j].queued_at /\ i < j
     /\ \A i \in IDs, size \in RequestSizes, nameOK \in BOOLEAN :
          (CreatePartyInsert(i, size, nameOK) /\ parties' # parties) =>
            /\ i \in DOMAIN getCurrentQueuePositions(parties')
            /\ api'[i].positionInQueue = getCurrentQueuePositions(parties')[i]]_vars

\* a snapshot has been read in which a party with the larger party_id,
\* queued earlier, is numbered before a party with the smaller one
C34_Witness ==
  /\ run["job"].pc = "setCache"
  /\ \E i, j \in DOMAIN run["job"].positions :
       /\ i < j
       /\ parties[j].queued_at < parties[i].queued_at
       /\ run["job"].positions[j] < run["job"].positions[i]

(***************************************************************************)
(* The frames of a stream around the admission of its party.               *)
(***************************************************************************)
\* C35: a stream that has written a CAN_DEQUEUE frame, from the dequeue
\* message or from the catch-up at connect, writes no QUEUE_POSITION_UPDATE
\* frame after it.
C35_NoPositionAfterCanDequeue ==
  \A a, b \in 1..Len(stream.frames) :
    (a < b /\ stream.frames[a].status = CAN_DEQUEUE)
      => stream.frames[b].status # QUEUE_POSITION_UPDATE

(***************************************************************************)
(* The check-in window a dequeue run opens.                                *)
(***************************************************************************)
\* C36: every party a dequeue run sets to checking-in gets the same
\* checkin_expiration, now + CHECKIN_EXPIRY_SECONDS at the update; the run
\* schedules exactly one check-in-expired job, to fire at that expiration
\* (at once if the expiration has already passed when it is scheduled); and
\* the checkingInExpiration of the run's dequeue message is the
\* checkin_expiration stored on every party the message lists that still
\* has a row.
C36_OneWindowPerRun ==
  [][\A s \in Slots :
       /\ SetCheckingInStatus(s) =>
            \A i \in CheckingInMatches(parties, run[s].toDequeue) :
              /\ parties'[i].status = STATUS_CHECKING_IN
              /\ parties'[i].checkin_expiration = now + CHECKIN_EXPIRY_SECONDS
              /\ run'[s].checkingInExpiration = parties'[i].checkin_expiration
       /\ ScheduleCheckinExpired(s) =>
            \E t \in {run[s].checkingInExpiration, now} :
              /\ t >= run[s].checkingInExpiration
              /\ checkinJobs' = checkinJobs (+) SetToBag({t})
       /\ (checkinJobs' # checkinJobs /\ ~CheckinExpiredStart)
            => \E t \in Slots : ScheduleCheckinExpired(t)
       /\ PublishDequeue(s) =>
            \A i \in DequeueMessage(s).partyIDs :
              Exists(parties, i) =>
                parties[i].checkin_expiration = DequeueMessage(s).checkingInExpiration]_vars

\* C37: no step changes the size or the queued_at of a row that exists
\* before and after it (the row's party_id is its place in the table); the
\* size of every row is within 1..MAX_SEATS; the seat_expiration a check-in
\* sets is computed from the size stored on the row.
C37_ImmutableIdentity ==
  [][/\ \A i \in IDs :
          (Exists(parties, i) /\ Exists(parties', i)) =>
            /\ parties'[i].size = parties[i].size
            /\ parties'[i].queued_at = parties[i].queued_at
     /\ \A i \in IDs : Exists(parties', i) => parties'[i].size \in 1..MAX_SEATS
     /\ \A i \in IDs : CheckInParty(i) =>
          \A p \in IDs :
            (parties[p].status # STATUS_SEATED /\ parties'[p].status = STATUS_SEATED)
              => parties'[p].seat_expiration =
                   now + SERVICE_TIME_SECONDS * parties[p].size]_vars

\* a party of MAX_SEATS that was admitted and checked in later than it was
\* queued is seated, with the size it was created with in its session
C37_Witness ==
  \E i \in IDs :
    /\ parties[i].status = STATUS_SEATED
    /\ parties[i].size = MAX_SEATS
    /\ session[i].partySize = MAX_SEATS
    /\ parties[i].checkin_expiration - CHECKIN_EXPIRY_SECONDS > parties[i].queued_at
    /\ parties[i].seat_expiration = now + SERVICE_TIME_SECONDS * MAX_SEATS

=============================================================================
